---- MODULE Spec2Model ----
(***************************************************************************)
(* A model of tf_agents/utils/eager_utils.py: the Future callable, the     *)
(* future_in_eager_mode decorator, create_train_step in its graph and      *)
(* eager branches, and the np_function decorator with its per-dtype memo.  *)
(***************************************************************************)
EXTENDS Integers, Sequences, FiniteSets, TLC

VARIABLES
  func,     \* the function or method handed to future_in_eager_mode / Future
  fut,      \* the Future the most recent wrapper call returned, if it returned one
  heap,     \* dict objects: "stored" is Future._kwargs, "call" is call_kwargs
  ctor,     \* history: the arguments of the construction of fut
  last,     \* history: the most recent wrapper call or Future call
  py2,      \* six.PY2: the interpreter the module runs under
  opts,     \* the optional arguments the program gives create_train_step
  w,        \* the trainable variables: the updates each has received
  gstep,    \* whether the global step variable exists
  step,     \* what the most recent create_train_step returned
  run,      \* graph mode: the evaluation of a returned tensor in progress
  tlast,    \* history: the most recent create_train_step, train step or run
  get_output_dtypes,  \* the get_output_dtypes argument of np_function
  memo,     \* func.memo: input dtypes -> output dtypes
  inferred, \* history: how often the output dtypes of each key were determined
  nlast     \* history: the most recent call of the np_function wrapper

futureVars == <<func, fut, heap, ctor, last>>
trainVars == <<py2, opts, w, gstep, step, run, tlast>>
npVars == <<get_output_dtypes, memo, inferred, nlast>>
vars == <<futureVars, trainVars, npVars>>

(***************************************************************************)
(* Bounds of the model.                                                    *)
(***************************************************************************)
MaxArgs == 2
MaxSteps == 2
MaxLoss == 2
MaxInfer == 2

(***************************************************************************)
(* Python values.  "falsy" is an object that evaluates as false (0, an     *)
(* empty container, an instance whose __len__ is 0); "x" and "y" are       *)
(* objects that evaluate as true.                                          *)
(***************************************************************************)
None == "None"
Vals == {"falsy", "x"}
CallVals == {"y"}
Names == {"a", "b"}

Truthy(v) == v \notin {None, "falsy"}

SeqsUpTo(S, n) == UNION {[1..k -> S] : k \in 0..n}
Dicts(K, V) == UNION {[S -> V] : S \in SUBSET K}
EmptyDict == [k \in {} |-> None]
Range(s) == {s[i] : i \in DOMAIN s}
Min(i, j) == IF i < j THEN i ELSE j

\* dict.pop(k, None) for every k of ks, and dict.update(e)
Pop(d, ks) == [k \in DOMAIN d \ ks |-> d[k]]
Update(d, e) == [k \in DOMAIN d \cup DOMAIN e |-> IF k \in DOMAIN e THEN e[k] ELSE d[k]]

(***************************************************************************)
(* The callables a Future is built from, by what introspection says of     *)
(* them: a plain function f(a, b); a function f(self, a, b) taken from a   *)
(* class body (no __self__); a method bound to an instance that evaluates  *)
(* as true; a method bound to an instance that evaluates as false;         *)
(* the train_step closure of create_train_step.                            *)
(***************************************************************************)
Funcs == {"plain", "unbound", "bound", "bound_falsy"}

getargspec(f) ==
  CASE f = "plain" -> <<"a", "b">>
    [] f = "train_step" -> <<>>
    [] OTHER -> <<"self", "a", "b">>

ismethod(f) == f \in {"bound", "bound_falsy"}

\* method.__self__, None where the attribute is missing
self_of(f) ==
  CASE f = "bound" -> "inst"
    [] f = "bound_falsy" -> "falsy"
    [] OTHER -> None

has_self_cls_arg(func_or_method) ==
  IF ismethod(func_or_method) THEN TRUE
  ELSE LET arg_names == getargspec(func_or_method)
       IN arg_names # <<>> /\ arg_names[1] \in {"self", "cls"}

is_unbound(method) == ~(self_of(method) # None /\ Truthy(self_of(method)))

NoFuture == [kind |-> "none", func |-> None, args |-> <<>>, arg_names |-> <<>>, self |-> None]

\* Future.__init__: the new object, or the ValueError it raises
Future__init__(func_or_method, args, kwargs) ==
  LET arg_names == getargspec(func_or_method)
      base == [kind |-> "future", func |-> func_or_method, args |-> args,
               arg_names |-> arg_names, self |-> None]
  IN IF has_self_cls_arg(func_or_method)
     THEN IF is_unbound(func_or_method)
          THEN IF args = <<>>
               THEN [raised |-> "ValueError", fut |-> NoFuture, kwargs |-> EmptyDict]
               ELSE [raised |-> "no",
                     fut |-> [base EXCEPT !.arg_names = Tail(arg_names),
                                          !.self = Head(args), !.args = Tail(args)],
                     kwargs |-> kwargs]
          ELSE [raised |-> "no", fut |-> [base EXCEPT !.arg_names = Tail(arg_names)],
                kwargs |-> kwargs]
     ELSE [raised |-> "no", fut |-> base, kwargs |-> kwargs]

\* copy.copy(self._kwargs) in Future.__call__: a new dict object
copy_alias(ref) == ref
copy_copy(ref) == "call"

NotPassed == "NotPassed"
NoInv == [inst |-> NotPassed, args |-> <<>>, kwargs |-> EmptyDict]

\* the keywords Future.__call__ drops: self._arg_names[:len(args)]
replaced_all(arg_names, args) == Range(arg_names)
replaced(arg_names, args) == Range(SubSeq(arg_names, 1, Min(Len(args), Len(arg_names))))

\* the instance Future.__call__ passes ahead of call_args
passed_self(fu) == IF Truthy(fu.self) THEN fu.self ELSE NotPassed

\* Future.__call__ up to the invocation: the heap and the invocation made
Future__call__(fu, hp, args, kwargs) ==
  LET call_args == IF args # <<>> THEN args ELSE fu.args
      ref == copy_copy("stored")
      h1 == [hp EXCEPT ![ref] = hp["stored"]]
      h2 == [h1 EXCEPT ![ref] = Pop(h1[ref], replaced(fu.arg_names, args))]
      h3 == [h2 EXCEPT ![ref] = Update(h2[ref], kwargs)]
  IN [heap |-> h3, ref |-> ref,
      inv |-> [inst |-> passed_self(fu), args |-> call_args, kwargs |-> h3[ref]]]

NoLast == [op |-> "none", eager |-> FALSE, args |-> <<>>, kwargs |-> EmptyDict,
           pops |-> {}, raised |-> "no", ret |-> None, ninv |-> 0, inv |-> NoInv,
           preFut |-> NoFuture, preKw |-> EmptyDict]
NoCtor == [args |-> <<>>, kwargs |-> EmptyDict, overridden |-> FALSE]

\* the decorator closure of future_in_eager_mode
decorator_calls(eager, args, kwargs) ==
  LET r == Future__init__(func, args, kwargs)
      inv == [inst |-> NotPassed, args |-> args, kwargs |-> kwargs]
  IN IF eager
     THEN [raised |-> r.raised, ret |-> IF r.raised = "no" THEN "Future" ELSE None,
           ninv |-> 1, inv |-> inv, made |-> r]
     ELSE [raised |-> "no", ret |-> "Output", ninv |-> 1, inv |-> inv,
           made |-> [raised |-> "no", fut |-> NoFuture, kwargs |-> EmptyDict]]
decorator(eager, args, kwargs) ==
  IF eager
  THEN LET r == Future__init__(func, args, kwargs)
       IN [raised |-> r.raised, ret |-> IF r.raised = "no" THEN "Future" ELSE None,
           ninv |-> 0, inv |-> NoInv, made |-> r]
  ELSE [raised |-> "no", ret |-> "Output", ninv |-> 1,
        inv |-> [inst |-> NotPassed, args |-> args, kwargs |-> kwargs],
        made |-> [raised |-> "no", fut |-> NoFuture, kwargs |-> EmptyDict]]

\* a call of the decorated function, in the mode tf.executing_eagerly() reports
WrapperCall(eager, args, kwargs) ==
  LET d == decorator(eager, args, kwargs)
      built == d.made.fut.kind = "future"
  IN /\ fut' = d.made.fut
     /\ heap' = [r \in {"stored", "call"} |->
                  IF r = "stored" THEN d.made.kwargs ELSE EmptyDict]
     /\ ctor' = IF built THEN [args |-> args, kwargs |-> kwargs, overridden |-> FALSE]
                ELSE NoCtor
     /\ last' = [op |-> "wrapper", eager |-> eager, args |-> args, kwargs |-> kwargs,
                 pops |-> {}, raised |-> d.raised, ret |-> d.ret, ninv |-> d.ninv,
                 inv |-> d.inv, preFut |-> NoFuture, preKw |-> EmptyDict]
     /\ UNCHANGED <<func, trainVars, npVars>>

\* a call of the Future; the function called pops the keys `pops` of the
\* kwargs dict it is given
FutureCall(args, kwargs, pops) ==
  /\ fut.kind = "future"
  /\ LET c == Future__call__(fut, heap, args, kwargs)
     IN /\ heap' = [c.heap EXCEPT ![c.ref] = Pop(c.heap[c.ref], pops)]
        /\ last' = [op |-> "call", eager |-> TRUE, args |-> args, kwargs |-> kwargs,
                    pops |-> pops, raised |-> "no", ret |-> "Output", ninv |-> 1,
                    inv |-> c.inv, preFut |-> fut, preKw |-> heap["stored"]]
  /\ ctor' = [ctor EXCEPT !.overridden =
                @ \/ args # <<>> \/ kwargs # EmptyDict \/ pops # {}]
  /\ UNCHANGED <<func, fut, trainVars, npVars>>

FutureNext ==
  \/ \E eager \in BOOLEAN, args \in SeqsUpTo(Vals, MaxArgs), kwargs \in Dicts(Names, {"x"}) :
       WrapperCall(eager, args, kwargs)
  \/ \E args \in SeqsUpTo(CallVals, MaxArgs), kwargs \in Dicts(Names, {"k"}),
        pops \in {{}, Names} :
       FutureCall(args, kwargs, pops)


(***************************************************************************)
(* create_train_step.                                                      *)
(***************************************************************************)
Vars == {"v1", "v2"}
TrainKeys == {"_loss", "_total_loss_fn", "_variables_to_train"}
Callable(x) == x \in {"fn", "future", "callable"}

LossValue(ws) == ws["v1"] + 2 * ws["v2"]

\* the variables to train: tape.watched_variables() for None, the list
\* itself, or what the callable returns
variables_to_train(vtt) ==
  CASE vtt = None -> <<"v1", "v2">>
    [] vtt = "list" -> <<"v1">>
    [] OTHER -> <<"v2">>

\* gradient/variable pairs as a list (what the graph-mode train op applies)
zip_list(grads, vs) == [items |-> [i \in DOMAIN vs |-> [grad |-> grads[i], var |-> vs[i]]],
                        oneshot |-> FALSE]
\* zip(grads, variables): a list under Python 2, a one-shot iterator otherwise
zip(grads, vs) == [items |-> [i \in DOMAIN vs |-> [grad |-> grads[i], var |-> vs[i]]],
                   oneshot |-> ~py2]
NoIter == [items |-> <<>>, oneshot |-> FALSE]

\* one pass over an iterable: what the loop sees and what is left of it
Iterate(it) == [seen |-> it.items,
                rest |-> IF it.oneshot THEN [it EXCEPT !.items = <<>>] ELSE it]

\* transform_grads_fn takes the pairs and returns the updated list
transform_grads_fn(gv) ==
  [items |-> [i \in DOMAIN Iterate(gv).seen |->
                [Iterate(gv).seen[i] EXCEPT !.grad = "clipped"]],
   oneshot |-> FALSE]

\* add_gradients_summaries: one loop over grads_and_vars
add_gradients_summaries(gv) == Iterate(gv)

\* optimizer.apply_gradients(grads_and_vars): every pair it is handed updates
\* its variable
apply_gradients(ws, pairs) ==
  [v \in Vars |-> IF \E i \in DOMAIN pairs : pairs[i].var = v THEN ws[v] + 1 ELSE ws[v]]

\* the statements of train_step in their order in the source
train_step_apply_first ==
  <<"apply_gradients", "loss", "total_loss", "variables", "gradient", "zip", "transform",
    "summaries", "check_numerics", "return">>
train_step ==
  <<"loss", "total_loss", "variables", "gradient", "zip", "transform", "summaries",
    "check_numerics", "apply_gradients", "return">>

Exec(stmt, st) ==
  CASE stmt = "loss" ->
         [st EXCEPT !.loss_value = LossValue(st.w), !.events = Append(@, "loss")]
    [] stmt = "total_loss" ->
         [st EXCEPT !.total = st.loss_value, !.events = Append(@, "total_loss")]
    [] stmt = "variables" ->
         [st EXCEPT !.vars = variables_to_train(st.kw["_variables_to_train"])]
    [] stmt = "gradient" ->
         [st EXCEPT !.grads = [i \in DOMAIN st.vars |-> "grad"],
                    !.events = Append(@, "gradient")]
    [] stmt = "zip" -> [st EXCEPT !.gv = zip(st.grads, st.vars)]
    [] stmt = "transform" ->
         IF opts.transform_grads_fn # None
         THEN [st EXCEPT !.gv = transform_grads_fn(st.gv), !.events = Append(@, "transform")]
         ELSE st
    [] stmt = "summaries" ->
         IF opts.summarize_gradients
         THEN [st EXCEPT !.gv = add_gradients_summaries(st.gv).rest,
                         !.summarized = add_gradients_summaries(st.gv).seen,
                         !.events = Append(@, "summaries")]
         ELSE st
    [] stmt = "check_numerics" ->
         IF opts.check_numerics
         THEN [st EXCEPT !.events = Append(@, "check_numerics")]
         ELSE st
    [] stmt = "apply_gradients" ->
         [st EXCEPT !.received = Iterate(st.gv).seen,
                    !.w = apply_gradients(st.w, Iterate(st.gv).seen),
                    !.events = Append(@, "apply_gradients")]
    [] OTHER ->
         [st EXCEPT !.returned = TRUE, !.ret = st.loss_value, !.events = Append(@, "return")]

RECURSIVE RunBody(_, _)
RunBody(prog, st) == IF prog = <<>> THEN st ELSE RunBody(Tail(prog), Exec(Head(prog), st))

NoStep == [kind |-> "none", n |-> 0, vtt |-> None]
NoRun == [active |-> FALSE, fetch |-> 0, done |-> {}, vals |-> <<>>, wStart |-> [v \in Vars |-> 0]]
NoTLast == [op |-> "none", eager |-> FALSE, loss |-> None, total_loss_fn |-> None,
            raised |-> "no", lossCalls |-> 0, optCalls |-> 0, events |-> <<>>,
            vars |-> <<>>, summarized |-> <<>>, received |-> <<>>,
            returned |-> FALSE, ret |-> 0, wPre |-> [v \in Vars |-> 0],
            gstepPre |-> FALSE, n |-> 0]

\* the graph create_train_step builds: loss tensors, the train op, and one
\* identity per loss tensor
LossNodes(n) == {<<"loss", i>> : i \in 1..n}
TrainOp == <<"train_op", 0>>
\* with tf.control_dependencies(nest.flatten(loss)): create_train_op(...)
train_op_inputs(n) == LossNodes(n)
\* with tf.control_dependencies([train_op]): tf.identity(t, 'loss')
identity_inputs_no_control(i) == {<<"loss", i>>}
identity_inputs(i) == {TrainOp, <<"loss", i>>}

Inputs(n, node) ==
  CASE node[1] = "loss" -> {}
    [] node[1] = "train_op" -> train_op_inputs(n)
    [] OTHER -> identity_inputs(node[2])

\* the nodes an evaluation of the i-th returned tensor runs
Needed(n, i) ==
  LET direct == Inputs(n, <<"out", i>>)
  IN {<<"out", i>>} \cup direct \cup UNION {Inputs(n, d) : d \in direct}

\* create_train_step(loss, optimizer, ...) in the mode tf.executing_eagerly()
\* reports; n is the number of tensors of the loss structure, which the call
\* sees in graph mode only
CreateTrainStep(eager, loss, total_loss_fn, vtt, n) ==
  LET tlf == IF total_loss_fn = None THEN "fn" ELSE total_loss_fn
      rec == [NoTLast EXCEPT !.op = "create", !.eager = eager, !.loss = loss,
                             !.total_loss_fn = total_loss_fn, !.wPre = w,
                             !.gstepPre = gstep, !.n = n]
      raise(g) == /\ tlast' = [rec EXCEPT !.raised = "ValueError"]
                  /\ gstep' = g
                  /\ step' = NoStep
                  /\ fut' = NoFuture
                  /\ heap' = [r \in {"stored", "call"} |-> EmptyDict]
  IN /\ eager => n = 1
     /\ run' = NoRun
     /\ UNCHANGED <<py2, opts, w, func, ctor, last, npVars>>
     /\ IF ~Callable(tlf) THEN raise(gstep)
        ELSE IF ~eager
        THEN /\ tlast' = [rec EXCEPT !.lossCalls = IF Callable(loss) THEN 1 ELSE 0,
                                     !.optCalls = 1]
             /\ step' = [kind |-> "tensors", n |-> n, vtt |-> vtt]
             /\ fut' = NoFuture
             /\ heap' = [r \in {"stored", "call"} |-> EmptyDict]
             \* global_step is handed on to create_train_op as it is
             /\ UNCHANGED gstep
        ELSE LET g == gstep \/ opts.global_step = "_USE_GLOBAL_STEP"
             IN IF ~Callable(loss) THEN raise(g)
                ELSE LET kw == [k \in TrainKeys |->
                                  CASE k = "_loss" -> loss
                                    [] k = "_total_loss_fn" -> tlf
                                    [] OTHER -> vtt]
                         made == Future__init__("train_step", <<>>, kw)
                     IN /\ gstep' = g
                        /\ tlast' = rec
                        /\ step' = [kind |-> "future", n |-> 0, vtt |-> vtt]
                        /\ fut' = made.fut
                        /\ heap' = [r \in {"stored", "call"} |->
                                      IF r = "stored" THEN made.kwargs ELSE EmptyDict]

\* eager mode: a call of the returned Future, which calls train_step
TrainStepCall(args) ==
  /\ step.kind = "future"
  /\ \A v \in Vars : w[v] < MaxSteps
  /\ LET c == Future__call__(fut, heap, args, EmptyDict)
         st0 == [w |-> w, kw |-> c.inv.kwargs, events |-> <<>>, loss_value |-> 0,
                 total |-> 0, vars |-> <<>>, grads |-> <<>>, gv |-> NoIter,
                 summarized |-> <<>>, received |-> <<>>, returned |-> FALSE, ret |-> 0]
         st == RunBody(train_step, st0)
     IN /\ heap' = [c.heap EXCEPT ![c.ref] = Pop(c.heap[c.ref], TrainKeys)]
        /\ w' = st.w
        /\ tlast' = [NoTLast EXCEPT !.op = "step", !.eager = TRUE,
                       !.loss = c.inv.kwargs["_loss"],
                       !.lossCalls = Cardinality({i \in DOMAIN st.events : st.events[i] = "loss"}),
                       !.optCalls = Cardinality({i \in DOMAIN st.events :
                                                   st.events[i] = "apply_gradients"}),
                       !.events = st.events, !.vars = st.vars,
                       !.summarized = st.summarized, !.received = st.received,
                       !.returned = st.returned, !.ret = st.ret, !.wPre = w,
                       !.gstepPre = gstep]
  /\ UNCHANGED <<py2, opts, gstep, step, run, func, fut, ctor, last, npVars>>

\* graph mode: an evaluation of the i-th returned tensor starts
SessionRun(i) ==
  /\ step.kind = "tensors" /\ ~run.active
  /\ i \in 1..step.n
  /\ \A v \in Vars : w[v] < MaxSteps
  /\ run' = [active |-> TRUE, fetch |-> i, done |-> {},
             vals |-> [j \in 1..step.n |-> 0], wStart |-> w]
  /\ tlast' = [NoTLast EXCEPT !.op = "run", !.n = step.n, !.wPre = w, !.gstepPre = gstep]
  /\ UNCHANGED <<py2, opts, w, gstep, step, futureVars, npVars>>

\* graph mode: the runtime executes a node whose inputs have all run
ExecNode(node) ==
  /\ run.active
  /\ node \in Needed(step.n, run.fetch) \ run.done
  /\ Inputs(step.n, node) \subseteq run.done
  /\ LET done == run.done \cup {node}
     IN CASE node[1] = "loss" ->
               /\ run' = [run EXCEPT !.done = done, !.vals[node[2]] = LossValue(w) + node[2]]
               /\ tlast' = [tlast EXCEPT !.events = Append(@, "loss")]
               /\ UNCHANGED w
          [] node[1] = "train_op" ->
               /\ run' = [run EXCEPT !.done = done]
               /\ w' = apply_gradients(w, zip_list(<<"grad", "grad">>,
                                                   variables_to_train(step.vtt)).items)
               /\ tlast' = [tlast EXCEPT !.events = Append(@, "train_op")]
          [] OTHER ->
               /\ run' = [run EXCEPT !.done = done, !.active = FALSE]
               /\ tlast' = [tlast EXCEPT !.events = Append(@, "return"),
                                         !.returned = TRUE, !.ret = run.vals[node[2]]]
               /\ UNCHANGED w
  /\ UNCHANGED <<py2, opts, gstep, step, futureVars, npVars>>

TrainNext ==
  \/ \E eager \in BOOLEAN, loss \in {"tensor", "future"},
        total_loss_fn \in {None, "fn", "notcallable"},
        vtt \in {None, "list", "callable"}, n \in 1..MaxLoss :
       CreateTrainStep(eager, loss, total_loss_fn, vtt, n)
  \/ \E args \in {<<>>, <<"y">>} : TrainStepCall(args)
  \/ \E i \in 1..MaxLoss : SessionRun(i)
  \/ \E kind \in {"loss", "train_op", "out"}, i \in 0..MaxLoss : ExecNode(<<kind, i>>)

(***************************************************************************)
(* np_function.                                                            *)
(***************************************************************************)
\* the dtypes of the flattened tensor arguments of a call
InputDtypes == {<<"int64">>, <<"float32">>, <<"int64", "float32">>}
\* the keyword arguments of a call: none, or one that fixes the output dtype
NpKwargs == {EmptyDict, [dtype |-> "float32"], [dtype |-> "int64"]}

\* the dtypes of what func_part returns for inputs of these dtypes
result_dtypes(input_dtypes, kwargs) ==
  IF "dtype" \in DOMAIN kwargs THEN <<kwargs["dtype"]>> ELSE <<input_dtypes[1]>>

\* input_dtypes not in func.memo
never_in_memo(input_dtypes, m) == TRUE
not_in_memo(input_dtypes, m) == input_dtypes \notin DOMAIN m

NoNLast == [op |-> "none", eager |-> FALSE, input_dtypes |-> <<>>, kwargs |-> EmptyDict,
            fcalls |-> 0, determined |-> 0, Tout |-> <<>>, pre |-> EmptyDict]

\* a call of the wrapper in the mode tf.executing_eagerly() reports
NpWrapperCall(eager, input_dtypes, kwargs) ==
  /\ IF eager
     THEN /\ nlast' = [op |-> "call", eager |-> TRUE, input_dtypes |-> input_dtypes,
                       kwargs |-> kwargs, fcalls |-> 1, determined |-> 0,
                       Tout |-> result_dtypes(input_dtypes, kwargs), pre |-> memo]
          /\ UNCHANGED <<memo, inferred>>
     ELSE LET miss == not_in_memo(input_dtypes, memo)
              found == IF get_output_dtypes = None
                       THEN result_dtypes(input_dtypes, kwargs)
                       ELSE <<input_dtypes[1]>>
              m == IF miss
                   THEN [k \in DOMAIN memo \cup {input_dtypes} |->
                           IF k = input_dtypes THEN found ELSE memo[k]]
                   ELSE memo
          IN /\ memo' = m
             /\ inferred' = IF miss /\ inferred[input_dtypes] < MaxInfer
                            THEN [inferred EXCEPT ![input_dtypes] = @ + 1]
                            ELSE inferred
             /\ nlast' = [op |-> "call", eager |-> FALSE, input_dtypes |-> input_dtypes,
                          kwargs |-> kwargs,
                          fcalls |-> IF miss /\ get_output_dtypes = None THEN 1 ELSE 0,
                          determined |-> IF miss THEN 1 ELSE 0,
                          Tout |-> m[input_dtypes], pre |-> memo]
  /\ UNCHANGED <<get_output_dtypes, futureVars, trainVars>>

NpNext ==
  \E eager \in BOOLEAN, input_dtypes \in InputDtypes, kwargs \in NpKwargs :
    NpWrapperCall(eager, input_dtypes, kwargs)

(***************************************************************************)
(* The specifications: one per part of the module, the other parts idle.   *)
(***************************************************************************)
FutureIdle ==
  /\ fut = NoFuture
  /\ heap = [r \in {"stored", "call"} |-> EmptyDict]
  /\ ctor = NoCtor
  /\ last = NoLast

TrainIdle ==
  /\ py2 = FALSE
  /\ opts = [transform_grads_fn |-> None, summarize_gradients |-> FALSE,
             check_numerics |-> TRUE, global_step |-> "_USE_GLOBAL_STEP"]
  /\ w = [v \in Vars |-> 0]
  /\ gstep = FALSE
  /\ step = NoStep
  /\ run = NoRun
  /\ tlast = NoTLast

NpIdle ==
  /\ get_output_dtypes = None
  /\ memo = EmptyDict
  /\ inferred = [t \in InputDtypes |-> 0]
  /\ nlast = NoNLast

\* a function or method has been decorated; no call yet
FutureInit == func \in Funcs /\ FutureIdle /\ TrainIdle /\ NpIdle

\* no train step created yet, under either interpreter and with any of the
\* optional arguments
TrainInit ==
  /\ py2 \in BOOLEAN
  /\ opts \in [transform_grads_fn : {None, "fn"}, summarize_gradients : BOOLEAN,
               check_numerics : BOOLEAN, global_step : {"_USE_GLOBAL_STEP", "tensor"}]
  /\ w = [v \in Vars |-> 0]
  /\ gstep = FALSE
  /\ step = NoStep
  /\ run = NoRun
  /\ tlast = NoTLast
  /\ func = "train_step"
  /\ FutureIdle /\ NpIdle

\* decorated(func) has run: func.memo = {}
NpInit ==
  /\ get_output_dtypes \in {None, "fn"}
  /\ memo = EmptyDict
  /\ inferred = [t \in InputDtypes |-> 0]
  /\ nlast = NoNLast
  /\ func = "plain"
  /\ FutureIdle /\ TrainIdle

SpecFuture == FutureInit /\ [][FutureNext]_vars
SpecTrain == TrainInit /\ [][TrainNext]_vars
SpecNp == NpInit /\ [][NpNext]_vars

(***************************************************************************)
(* Claims about Future and future_in_eager_mode, checked under SpecFuture. *)
(***************************************************************************)

\* the function's parameters after a leading self/cls, and the positional and
\* keyword arguments given at construction after the captured instance
ParamsAfterSelf == IF has_self_cls_arg(func) THEN Tail(getargspec(func)) ELSE getargspec(func)
InitPositionals == IF fut.self # None THEN Tail(ctor.args) ELSE ctor.args
DirectInv == [inst |-> NotPassed, args |-> last.args, kwargs |-> last.kwargs]

\* C1 as stated: a graph-mode call of the wrapper invokes the function once
\* with the given arguments and returns its output; every eager-mode call
\* returns a Future and invokes nothing; a call of the Future invokes the
\* function once.
C1_EveryEagerCallReturnsFuture ==
  /\ (last.op = "wrapper" /\ ~last.eager) =>
       last.ninv = 1 /\ last.inv = DirectInv /\ last.ret = "Output"
  /\ (last.op = "wrapper" /\ last.eager) =>
       last.ninv = 0 /\ last.ret = "Future" /\ fut.kind = "future"
  /\ last.op = "call" => last.ninv = 1

\* C1 amended: as C1, except that an eager-mode call raises ValueError,
\* returning no Future and still invoking nothing, exactly when Future's
\* constructor finds that the function takes self/cls, has no __self__ that
\* evaluates as true, and was given no positional argument.
C1_EagerFutureOrValueError ==
  /\ (last.op = "wrapper" /\ ~last.eager) =>
       last.ninv = 1 /\ last.inv = DirectInv /\ last.ret = "Output"
  /\ (last.op = "wrapper" /\ last.eager) =>
       /\ last.ninv = 0
       /\ IF has_self_cls_arg(func) /\ is_unbound(func) /\ last.args = <<>>
          THEN last.raised = "ValueError" /\ last.ret = None /\ fut.kind = "none"
          ELSE last.raised = "no" /\ last.ret = "Future" /\ fut.kind = "future"
  /\ last.op = "call" => last.ninv = 1

\* C1 reached: the Future an eager-mode call returned for a function taking
\* self has been called, and that call invoked the function once
C1_Witness ==
  /\ last.op = "call" /\ last.ninv = 1 /\ fut.kind = "future"
  /\ has_self_cls_arg(func)

\* C2: a call of a Future passes the call-time positionals if there are any
\* and the init positionals otherwise; it passes the init keywords, minus
\* those naming one of the first len(call-time positionals) parameters, with
\* the call-time keywords overriding; the function is invoked once with that
\* and its return value is returned.
C2_CallResolvesArguments ==
  last.op = "call" =>
    LET n == Len(last.args)
        firstParams == {ParamsAfterSelf[i] : i \in {j \in DOMAIN ParamsAfterSelf : j <= n}}
        kw == last.inv.kwargs
    IN /\ last.ninv = 1
       /\ last.ret = "Output"
       /\ last.inv.args = (IF n > 0 THEN last.args ELSE InitPositionals)
       /\ DOMAIN kw = (DOMAIN ctor.kwargs \ firstParams) \cup DOMAIN last.kwargs
       /\ \A k \in DOMAIN kw :
            kw[k] = IF k \in DOMAIN last.kwargs THEN last.kwargs[k] ELSE ctor.kwargs[k]

\* C2 reached: a call with one positional and one keyword argument dropped
\* the init keyword of the first parameter and overrode the other
C2_Witness ==
  /\ last.op = "call" /\ Len(last.args) = 1
  /\ DOMAIN ctor.kwargs = {"a", "b"} /\ DOMAIN last.kwargs = {"b"}
  /\ "a" \notin DOMAIN last.inv.kwargs /\ last.inv.kwargs["b"] = "k"
  /\ ctor.overridden

\* C3: no call of a Future changes its function, positionals, keywords or
\* captured instance, so a call with no arguments invokes the function with
\* the arguments given at construction whatever calls came before, also
\* when the called function pops keys of the kwargs dict it was given.
C3_FutureIsReusable ==
  fut.kind = "future" =>
    /\ fut = Future__init__(func, ctor.args, ctor.kwargs).fut
    /\ heap["stored"] = ctor.kwargs
    /\ (last.op = "call" /\ last.args = <<>> /\ last.kwargs = EmptyDict) =>
         last.inv.args = InitPositionals /\ last.inv.kwargs = ctor.kwargs

\* C3 reached: a call with no arguments, after a call that overrode
\* arguments or popped keys, passed the keywords given at construction
C3_Witness ==
  /\ last.op = "call" /\ last.args = <<>> /\ last.kwargs = EmptyDict
  /\ ctor.overridden /\ last.pops = {}
  /\ ctor.kwargs # EmptyDict /\ InitPositionals # <<>>
  /\ last.inv.kwargs = ctor.kwargs

\* C9: for a method taking self/cls, an unbound one needs a positional
\* argument at construction (ValueError otherwise), captures the first as
\* the instance and passes it first in every call, whatever the instance;
\* a bound one consumes no positional argument and is never passed an extra
\* leading argument.
C9_InstanceAlwaysPassed ==
  has_self_cls_arg(func) =>
    /\ (last.op = "wrapper" /\ last.eager /\ ~ismethod(func)) =>
         IF last.args = <<>> THEN last.raised = "ValueError"
         ELSE last.raised = "no" /\ fut.self = Head(last.args) /\ fut.args = Tail(last.args)
    /\ (last.op = "call" /\ ~ismethod(func)) => last.inv.inst = Head(ctor.args)
    /\ (last.op = "wrapper" /\ last.eager /\ ismethod(func)) =>
         last.raised = "no" /\ fut.self = None /\ fut.args = last.args
    /\ (last.op = "call" /\ ismethod(func)) => last.inv.inst = NotPassed

(***************************************************************************)
(* Claims about create_train_step, checked under SpecTrain.                *)
(***************************************************************************)
KeyEvents(ev) ==
  SelectSeq(ev, LAMBDA e : e \in {"loss", "gradient", "apply_gradients", "return"})
ZeroW == [v \in Vars |-> 0]

\* C4: in eager mode every invocation of the train step computes the loss,
\* then the gradients with respect to the variables to train, then calls
\* optimizer.apply_gradients, each exactly once and in this order, and
\* returns the loss computed before the variables were updated;
\* create_train_step itself computes no loss and applies no gradients.
C4_EagerStepOrder ==
  /\ tlast.op = "step" =>
       /\ KeyEvents(tlast.events) = <<"loss", "gradient", "apply_gradients", "return">>
       /\ tlast.lossCalls = 1 /\ tlast.optCalls = 1
       /\ tlast.vars = variables_to_train(step.vtt)
       /\ tlast.returned /\ tlast.ret = LossValue(tlast.wPre)
       /\ w = apply_gradients(tlast.wPre, tlast.received)
  /\ (tlast.op = "create" /\ tlast.eager) =>
       tlast.events = <<>> /\ tlast.lossCalls = 0 /\ tlast.optCalls = 0 /\ w = tlast.wPre

\* C4 reached: a train step on variables already updated once returned the
\* loss of before its own update, with every optional stage switched on
C4_Witness ==
  /\ tlast.op = "step" /\ tlast.returned
  /\ tlast.wPre # ZeroW /\ w # tlast.wPre /\ tlast.ret = LossValue(tlast.wPre)
  /\ opts.transform_grads_fn # None /\ opts.summarize_gradients /\ opts.check_numerics

\* C5: in graph mode create_train_step calls a callable loss exactly once
\* and returns as many tensors as the loss holds; every evaluation of a
\* returned tensor runs the loss tensors first, then the train op, then
\* returns the loss value computed before the update, and never returns
\* without the train op having run.
C5_GraphOrder ==
  /\ (tlast.op = "create" /\ ~tlast.eager /\ tlast.raised = "no") =>
       /\ tlast.lossCalls = (IF Callable(tlast.loss) THEN 1 ELSE 0)
       /\ step.kind = "tensors" /\ step.n = tlast.n
  /\ step.kind = "tensors" =>
       /\ \A i \in 1..step.n : <<"out", i>> \in run.done => TrainOp \in run.done
       /\ TrainOp \in run.done => LossNodes(step.n) \subseteq run.done
       /\ (tlast.op = "run" /\ tlast.returned) =>
            /\ tlast.events = [k \in 1..(step.n + 2) |->
                                 IF k <= step.n THEN "loss"
                                 ELSE IF k = step.n + 1 THEN "train_op" ELSE "return"]
            /\ tlast.ret = LossValue(tlast.wPre) + run.fetch
            /\ w = apply_gradients(tlast.wPre,
                                   zip_list(<<"grad", "grad">>, variables_to_train(step.vtt)).items)

\* C5 reached: an evaluation of a tensor of the largest loss structure
\* returned after the train op updated variables that were updated before
C5_Witness ==
  /\ tlast.op = "run" /\ tlast.returned /\ step.n = MaxLoss
  /\ tlast.wPre # ZeroW /\ w # tlast.wPre

\* C6: create_train_step raises ValueError for a loss that is not callable
\* in eager mode and, in either mode, for a total_loss_fn that is given and
\* not callable; when it raises it returns no train step and has changed no
\* state: no global step fetched or created, the optimizer not used.
C6_RaiseChangesNothing ==
  tlast.op = "create" =>
    /\ (tlast.eager /\ ~Callable(tlast.loss)) => tlast.raised = "ValueError"
    /\ (tlast.total_loss_fn # None /\ ~Callable(tlast.total_loss_fn)) =>
         tlast.raised = "ValueError"
    /\ tlast.raised = "ValueError" =>
         /\ step.kind = "none"
         /\ gstep = tlast.gstepPre
         /\ w = tlast.wPre
         /\ tlast.optCalls = 0 /\ tlast.lossCalls = 0

\* C8: in eager mode optimizer.apply_gradients receives one (gradient,
\* variable) pair for every variable to train on every invocation, whatever
\* summarize_gradients and transform_grads_fn are; the pairs that
\* add_gradients_summaries iterates over still reach the optimizer in full.
C8_AllPairsDelivered ==
  tlast.op = "step" =>
    /\ Len(tlast.received) = Len(tlast.vars)
    /\ \A i \in DOMAIN tlast.received : tlast.received[i].var = tlast.vars[i]
    /\ opts.summarize_gradients => tlast.summarized = tlast.received

(***************************************************************************)
(* The claim about np_function, checked under SpecNp.                      *)
(***************************************************************************)
\* C7: in graph mode the output dtypes of a tuple of input dtypes are
\* determined at most once, cached, and reused by every later graph-mode
\* call with that tuple without another inference; a call with a new tuple
\* adds one entry and leaves the others unchanged; eager-mode calls leave
\* the cache alone and call the function exactly once.
C7_MemoDeterminedOnce ==
  /\ \A t \in InputDtypes :
       inferred[t] <= 1 /\ (t \in DOMAIN memo <=> inferred[t] = 1)
  /\ (nlast.op = "call" /\ ~nlast.eager) =>
       LET t == nlast.input_dtypes
       IN /\ nlast.Tout = memo[t]
          /\ DOMAIN memo = DOMAIN nlast.pre \cup {t}
          /\ \A k \in DOMAIN nlast.pre : memo[k] = nlast.pre[k]
          /\ IF t \in DOMAIN nlast.pre
             THEN nlast.determined = 0 /\ nlast.fcalls = 0
             ELSE /\ nlast.determined = 1
                  /\ nlast.fcalls = (IF get_output_dtypes = None THEN 1 ELSE 0)
  /\ (nlast.op = "call" /\ nlast.eager) =>
       memo = nlast.pre /\ nlast.fcalls = 1 /\ nlast.determined = 0

\* C7 reached: a graph-mode call found its key cached, with every key
\* cached, and used dtypes that a fresh inference would not have given
C7_Witness ==
  /\ nlast.op = "call" /\ ~nlast.eager
  /\ nlast.input_dtypes \in DOMAIN nlast.pre
  /\ DOMAIN memo = InputDtypes
  /\ get_output_dtypes = None
  /\ nlast.Tout # result_dtypes(nlast.input_dtypes, nlast.kwargs)

====
